---- MODULE Spec2Model ----
(***************************************************************************)
(* go-concurrent-web-scraper: the worker pool (worker.Start), the fetch    *)
(* engine (fetcher.FetchWithRetry) and the coordinator (main).             *)
(*                                                                         *)
(* Two specifications:                                                     *)
(*   Spec / FairSpec  the whole program: job source, workers, interrupt    *)
(*                    watcher and the result loop of main, interleaved at  *)
(*                    the granularity of channel operations, http.Get and  *)
(*                    time.Sleep;                                          *)
(*   SpecFetch        one call of FetchWithRetry(url, n) run against every *)
(*                    script of per-attempt outcomes.                      *)
(* The interrupt is modelled from the moment signal.Notify has registered  *)
(* the channel c, taken to be the moment main starts that goroutine.       *)
(***************************************************************************)
EXTENDS Integers, Sequences, FiniteSets, TLC

\* ---- bounds ------------------------------------------------------------
\* number of worker goroutines (main.go: workerCount = 5, scaled down)
workerCount == 2
\* largest number of lines of urls.txt
MaxJobs == 2
\* capacity of the jobs channel (main.go: make(chan string, 10), scaled down)
JobsCap == 1
\* capacity of the results channel (main.go: make(chan string, 10), scaled down)
ResultsCap == 1
\* largest retry budget a FetchWithRetry call is given in SpecFetch
MaxAttempts == 4

\* ---- program constants -------------------------------------------------
\* worker.Start: fetcher.FetchWithRetry(url, 3)
Retries == 3
\* http.StatusOK
StatusOK == 200
\* c := make(chan os.Signal, 1)
SigCap == 1

VARIABLES
    nURLs,          \* number of lines of urls.txt (0: empty or missing file)
    fed,            \* lines the job source has sent on jobs so far
    srcPc,          \* job source goroutine: "unstarted" | "scan" | "done"
    jobs,           \* buffer of the jobs channel: job numbers, oldest first
    jobsClosed,     \* close(jobs) has been executed
    results,        \* buffer of the results channel
    resultsClosed,  \* the results channel has been closed
    printed,        \* job -> number of lines main has printed for it
    mainPc,         \* main goroutine: "start" | "range" | "exited"
    started,        \* worker goroutines main has started so far
    canceled,       \* ctx.Done() is closed
    sigC,           \* signals buffered in channel c
    watcherPc,      \* interrupt goroutine: "unstarted" | "wait" | "done"
    shutdownMsgs,   \* number of "Shutting down..." lines
    wpc,            \* worker -> "unstarted" | "select" | "fetch" | "stopped" | "closed"
    wjob,           \* worker -> job it holds (0: none)
    wf,             \* worker -> activation record of its FetchWithRetry call
    stopLog,        \* worker -> number of "[Worker id] Stopping" lines
    panicked,       \* a goroutine panicked (send on / close of a closed channel)
    recvd,          \* history: job -> number of times a worker received it
    pushed,         \* history: job -> number of Results sent for it
    atCancel,       \* history: jobs held by workers when cancel() ran
    recvLog,        \* history: worker -> jobs it received, in order
    pushLog,        \* history: worker -> jobs whose Result it sent, in order
    call,           \* SpecFetch: activation record of the call under test
    script          \* SpecFetch: what the k-th http.Get would answer

poolVars == <<nURLs, fed, srcPc, jobs, jobsClosed, results, resultsClosed,
              printed, mainPc, canceled, sigC, watcherPc, shutdownMsgs,
              wpc, wjob, wf, stopLog, panicked, recvd, pushed, atCancel,
              recvLog, pushLog, started>>
vars == <<nURLs, fed, srcPc, jobs, jobsClosed, results, resultsClosed,
          printed, mainPc, canceled, sigC, watcherPc, shutdownMsgs,
          wpc, wjob, wf, stopLog, panicked, recvd, pushed, atCancel,
          recvLog, pushLog, started, call, script>>

Workers == 0 .. (workerCount - 1)
JobIds == 1 .. MaxJobs

\* ---- fetcher.FetchWithRetry --------------------------------------------
\* What one http.Get (and, after a 200, io.ReadAll) can come back with:
\* err: transport error (resp is nil); status: resp.StatusCode;
\* readable: io.ReadAll(resp.Body) succeeds.
Outcomes ==
    { [err |-> TRUE,  status |-> 0,        readable |-> FALSE],
      [err |-> FALSE, status |-> 500,      readable |-> FALSE],
      [err |-> FALSE, status |-> 404,      readable |-> FALSE],
      [err |-> FALSE, status |-> StatusOK, readable |-> TRUE],
      [err |-> FALSE, status |-> StatusOK, readable |-> FALSE] }

\* the loop test written i <= retries
LoopTest_Inclusive(f) ==
    IF f.i <= f.retries
    THEN [f EXCEPT !.pc = "get"]
    ELSE [f EXCEPT !.pc = "ret", !.res = "exhausted"]

\* the loop test i < retries, and the return after the loop
LoopTest(f) ==
    IF f.i < f.retries
    THEN [f EXCEPT !.pc = "get"]
    ELSE [f EXCEPT !.pc = "ret", !.res = "exhausted"]

\* entry of FetchWithRetry(url, n): resp, err declared, i := 0, loop test
FetchWithRetry(n) ==
    LoopTest([pc |-> "get", i |-> 0, retries |-> n, err |-> FALSE,
              gets |-> 0, waited |-> 0, lastWait |-> 0, res |-> "none",
              from |-> 0])

\* the success test without the status check
IsSuccess_NoError(o) == ~o.err

\* the success test retrying only 5xx answers
IsSuccess_Below500(o) == (~o.err) /\ o.status < 500

\* the success test of the loop body
IsSuccess(o) == (~o.err) /\ o.status = StatusOK

\* a loop body that treats a failed body read as one more failed attempt
HttpGet_RetryRead(f, o) ==
    LET g == [f EXCEPT !.gets = f.gets + 1, !.err = o.err]
    IN  IF IsSuccess(o) /\ o.readable
        THEN [g EXCEPT !.pc = "ret", !.res = "ok", !.from = g.gets]
        ELSE [g EXCEPT !.pc = "sleep"]

\* resp, err = http.Get(url) answering o, up to the return or the sleep;
\* from: the attempt whose response body is returned
HttpGet(f, o) ==
    LET g == [f EXCEPT !.gets = f.gets + 1, !.err = o.err]
    IN  IF IsSuccess(o)
        THEN IF o.readable
             THEN [g EXCEPT !.pc = "ret", !.res = "ok", !.from = g.gets]
             ELSE [g EXCEPT !.pc = "ret", !.res = "readerr"]
        ELSE [g EXCEPT !.pc = "sleep"]

\* the delay computed from i instead of i+1
Backoff_ZeroBased(i) == i

\* the delay of the sleep after the failure of attempt i
Backoff(i) == i + 1

\* a loop body that does not sleep after the last attempt
SleepStep_SkipLast(f) ==
    LoopTest([f EXCEPT !.waited = IF f.i + 1 < f.retries
                                  THEN f.waited + Backoff(f.i) ELSE f.waited,
                       !.lastWait = IF f.i + 1 < f.retries
                                    THEN Backoff(f.i) ELSE f.lastWait,
                       !.i = f.i + 1])

\* time.Sleep(...), i++ and the loop test
SleepStep(f) ==
    LoopTest([f EXCEPT !.waited = f.waited + Backoff(f.i),
                       !.lastWait = Backoff(f.i),
                       !.i = f.i + 1])

\* the whole call against the outcome sequence s (s[k] answers the k-th GET)
RECURSIVE RunFetch(_, _)
RunFetch(f, s) ==
    IF f.pc = "ret" THEN f
    ELSE IF f.pc = "sleep" THEN RunFetch(SleepStep(f), s)
    ELSE RunFetch(HttpGet(f, s[f.gets + 1]), s)

\* ---- worker.Start ------------------------------------------------------
\* the string a worker sends on results, kept as its fields
ResultOf(w, j, f) ==
    [worker |-> w, job |-> j,
     kind |-> IF f.res = "ok" THEN "Fetched" ELSE "Error",
     detail |-> f.res]

\* a worker that is not inside FetchWithRetry
IdleCall == [pc |-> "none", i |-> 0, retries |-> 0, err |-> FALSE,
             gets |-> 0, waited |-> 0, lastWait |-> 0, res |-> "none",
             from |-> 0]

\* case <-ctx.Done(): print the stop notice and return
WorkerCancel(w) ==
    /\ wpc[w] = "select"
    /\ canceled
    /\ stopLog' = [stopLog EXCEPT ![w] = @ + 1]
    /\ wpc' = [wpc EXCEPT ![w] = "stopped"]
    /\ UNCHANGED <<nURLs, fed, srcPc, jobs, jobsClosed, results, resultsClosed,
                   printed, mainPc, canceled, sigC, watcherPc, shutdownMsgs,
                   wjob, wf, panicked, recvd, pushed, atCancel, recvLog, pushLog,
                   started, call, script>>

\* a worker that takes the next job before it has reported the previous one
WorkerRecv_Eager(w) ==
    /\ wpc[w] \in {"select", "fetch"}
    /\ Len(jobs) > 0
    /\ jobs' = Tail(jobs)
    /\ wjob' = [wjob EXCEPT ![w] = Head(jobs)]
    /\ wf' = [wf EXCEPT ![w] = FetchWithRetry(Retries)]
    /\ wpc' = [wpc EXCEPT ![w] = "fetch"]
    /\ recvLog' = [recvLog EXCEPT ![w] = Append(@, Head(jobs))]
    /\ recvd' = [recvd EXCEPT ![Head(jobs)] = @ + 1]
    /\ UNCHANGED <<nURLs, fed, srcPc, jobsClosed, results, resultsClosed,
                   printed, mainPc, canceled, sigC, watcherPc, shutdownMsgs,
                   stopLog, panicked, pushed, atCancel, pushLog,
                   started, call, script>>

\* case url, ok := <-jobs with ok: take the job and enter FetchWithRetry(url, 3)
WorkerRecv(w) ==
    /\ wpc[w] = "select"
    /\ Len(jobs) > 0
    /\ jobs' = Tail(jobs)
    /\ wjob' = [wjob EXCEPT ![w] = Head(jobs)]
    /\ wf' = [wf EXCEPT ![w] = FetchWithRetry(Retries)]
    /\ wpc' = [wpc EXCEPT ![w] = "fetch"]
    /\ recvLog' = [recvLog EXCEPT ![w] = Append(@, Head(jobs))]
    /\ recvd' = [recvd EXCEPT ![Head(jobs)] = @ + 1]
    /\ UNCHANGED <<nURLs, fed, srcPc, jobsClosed, results, resultsClosed,
                   printed, mainPc, canceled, sigC, watcherPc, shutdownMsgs,
                   stopLog, panicked, pushed, atCancel, pushLog,
                   started, call, script>>

\* a worker that returns as soon as it finds the queue empty
WorkerClosed_EmptyQueue(w) ==
    /\ wpc[w] = "select"
    /\ Len(jobs) = 0
    /\ wpc' = [wpc EXCEPT ![w] = "closed"]
    /\ UNCHANGED <<nURLs, fed, srcPc, jobs, jobsClosed, results, resultsClosed,
                   printed, mainPc, canceled, sigC, watcherPc, shutdownMsgs,
                   wjob, wf, stopLog, panicked, recvd, pushed, atCancel,
                   recvLog, pushLog,
                   started, call, script>>

\* a worker that prints the stop notice on the closed queue too
WorkerClosed_Notice(w) ==
    /\ wpc[w] = "select"
    /\ Len(jobs) = 0
    /\ jobsClosed
    /\ stopLog' = [stopLog EXCEPT ![w] = @ + 1]
    /\ wpc' = [wpc EXCEPT ![w] = "closed"]
    /\ UNCHANGED <<nURLs, fed, srcPc, jobs, jobsClosed, results, resultsClosed,
                   printed, mainPc, canceled, sigC, watcherPc, shutdownMsgs,
                   wjob, wf, panicked, recvd, pushed, atCancel,
                   recvLog, pushLog,
                   started, call, script>>

\* a worker that returns on the closed queue without draining its buffer
WorkerClosed_Undrained(w) ==
    /\ wpc[w] = "select"
    /\ jobsClosed
    /\ wpc' = [wpc EXCEPT ![w] = "closed"]
    /\ UNCHANGED <<nURLs, fed, srcPc, jobs, jobsClosed, results, resultsClosed,
                   printed, mainPc, canceled, sigC, watcherPc, shutdownMsgs,
                   wjob, wf, stopLog, panicked, recvd, pushed, atCancel,
                   recvLog, pushLog,
                   started, call, script>>

\* a worker that closes results when it returns on the closed queue
WorkerClosed_CloseResults(w) ==
    /\ wpc[w] = "select"
    /\ Len(jobs) = 0
    /\ jobsClosed
    /\ wpc' = [wpc EXCEPT ![w] = "closed"]
    /\ resultsClosed' = TRUE
    /\ panicked' = (panicked \/ resultsClosed)
    /\ UNCHANGED <<nURLs, fed, srcPc, jobs, jobsClosed, results,
                   printed, mainPc, canceled, sigC, watcherPc, shutdownMsgs,
                   wjob, wf, stopLog, recvd, pushed, atCancel,
                   recvLog, pushLog, started, call, script>>

\* case url, ok := <-jobs with !ok (closed and drained): return
WorkerClosed(w) ==
    /\ wpc[w] = "select"
    /\ Len(jobs) = 0
    /\ jobsClosed
    /\ wpc' = [wpc EXCEPT ![w] = "closed"]
    /\ UNCHANGED <<nURLs, fed, srcPc, jobs, jobsClosed, results, resultsClosed,
                   printed, mainPc, canceled, sigC, watcherPc, shutdownMsgs,
                   wjob, wf, stopLog, panicked, recvd, pushed, atCancel,
                   recvLog, pushLog,
                   started, call, script>>

\* inside FetchWithRetry: one http.Get
WorkerGet(w) ==
    /\ wpc[w] = "fetch"
    /\ wf[w].pc = "get"
    /\ \E o \in Outcomes : wf' = [wf EXCEPT ![w] = HttpGet(wf[w], o)]
    /\ UNCHANGED <<nURLs, fed, srcPc, jobs, jobsClosed, results, resultsClosed,
                   printed, mainPc, canceled, sigC, watcherPc, shutdownMsgs,
                   wpc, wjob, stopLog, panicked, recvd, pushed, atCancel,
                   recvLog, pushLog,
                   started, call, script>>

\* inside FetchWithRetry: the backoff sleep
WorkerSleep(w) ==
    /\ wpc[w] = "fetch"
    /\ wf[w].pc = "sleep"
    /\ wf' = [wf EXCEPT ![w] = SleepStep(wf[w])]
    /\ UNCHANGED <<nURLs, fed, srcPc, jobs, jobsClosed, results, resultsClosed,
                   printed, mainPc, canceled, sigC, watcherPc, shutdownMsgs,
                   wpc, wjob, stopLog, panicked, recvd, pushed, atCancel,
                   recvLog, pushLog,
                   started, call, script>>

\* a worker that gives up its Result when the context is canceled
WorkerSend_UnlessCanceled(w) ==
    /\ wpc[w] = "fetch"
    /\ wf[w].pc = "ret"
    /\ IF canceled
       THEN UNCHANGED <<results, pushed, pushLog>>
       ELSE /\ Len(results) < ResultsCap
            /\ results' = Append(results, ResultOf(w, wjob[w], wf[w]))
            /\ pushed' = [pushed EXCEPT ![wjob[w]] = @ + 1]
            /\ pushLog' = [pushLog EXCEPT ![w] = Append(@, wjob[w])]
    /\ wpc' = [wpc EXCEPT ![w] = "select"]
    /\ wf' = [wf EXCEPT ![w] = IdleCall]
    /\ wjob' = [wjob EXCEPT ![w] = 0]
    /\ UNCHANGED <<nURLs, fed, srcPc, jobs, jobsClosed, resultsClosed,
                   printed, mainPc, canceled, sigC, watcherPc, shutdownMsgs,
                   stopLog, panicked, recvd, atCancel, recvLog,
                   started, call, script>>

\* a worker that returns after reporting a failed fetch
WorkerSend_ReturnOnError(w) ==
    /\ wpc[w] = "fetch"
    /\ wf[w].pc = "ret"
    /\ Len(results) < ResultsCap
    /\ results' = Append(results, ResultOf(w, wjob[w], wf[w]))
    /\ pushed' = [pushed EXCEPT ![wjob[w]] = @ + 1]
    /\ pushLog' = [pushLog EXCEPT ![w] = Append(@, wjob[w])]
    /\ wpc' = [wpc EXCEPT ![w] = IF wf[w].res = "ok" THEN "select" ELSE "closed"]
    /\ wf' = [wf EXCEPT ![w] = IdleCall]
    /\ wjob' = [wjob EXCEPT ![w] = 0]
    /\ UNCHANGED <<nURLs, fed, srcPc, jobs, jobsClosed, resultsClosed,
                   printed, mainPc, canceled, sigC, watcherPc, shutdownMsgs,
                   stopLog, panicked, recvd, atCancel, recvLog,
                   started, call, script>>

\* a worker that sends without blocking and gives up when results is full
WorkerSend_DropWhenFull(w) ==
    /\ wpc[w] = "fetch"
    /\ wf[w].pc = "ret"
    /\ IF Len(results) < ResultsCap
       THEN /\ results' = Append(results, ResultOf(w, wjob[w], wf[w]))
            /\ pushed' = [pushed EXCEPT ![wjob[w]] = @ + 1]
            /\ pushLog' = [pushLog EXCEPT ![w] = Append(@, wjob[w])]
       ELSE UNCHANGED <<results, pushed, pushLog>>
    /\ wpc' = [wpc EXCEPT ![w] = "select"]
    /\ wf' = [wf EXCEPT ![w] = IdleCall]
    /\ wjob' = [wjob EXCEPT ![w] = 0]
    /\ UNCHANGED <<nURLs, fed, srcPc, jobs, jobsClosed, resultsClosed,
                   printed, mainPc, canceled, sigC, watcherPc, shutdownMsgs,
                   stopLog, panicked, recvd, atCancel, recvLog,
                   started, call, script>>

\* results <- fmt.Sprintf(...) after FetchWithRetry returned, then loop
WorkerSend(w) ==
    /\ wpc[w] = "fetch"
    /\ wf[w].pc = "ret"
    /\ IF resultsClosed
       THEN /\ panicked' = TRUE
            /\ UNCHANGED <<results, pushed, pushLog, wpc, wf, wjob>>
       ELSE /\ Len(results) < ResultsCap
            /\ results' = Append(results, ResultOf(w, wjob[w], wf[w]))
            /\ pushed' = [pushed EXCEPT ![wjob[w]] = @ + 1]
            /\ pushLog' = [pushLog EXCEPT ![w] = Append(@, wjob[w])]
            /\ wpc' = [wpc EXCEPT ![w] = "select"]
            /\ wf' = [wf EXCEPT ![w] = IdleCall]
            /\ wjob' = [wjob EXCEPT ![w] = 0]
            /\ UNCHANGED panicked
    /\ UNCHANGED <<nURLs, fed, srcPc, jobs, jobsClosed, resultsClosed,
                   printed, mainPc, canceled, sigC, watcherPc, shutdownMsgs,
                   stopLog, recvd, atCancel, recvLog,
                   started, call, script>>

\* ---- main --------------------------------------------------------------
\* jobs <- scanner.Text()
SourceSend ==
    /\ srcPc = "scan"
    /\ fed < nURLs
    /\ IF jobsClosed
       THEN /\ panicked' = TRUE
            /\ UNCHANGED <<jobs, fed>>
       ELSE /\ Len(jobs) < JobsCap
            /\ jobs' = Append(jobs, fed + 1)
            /\ fed' = fed + 1
            /\ UNCHANGED panicked
    /\ UNCHANGED <<nURLs, srcPc, jobsClosed, results, resultsClosed,
                   printed, mainPc, canceled, sigC, watcherPc, shutdownMsgs,
                   wpc, wjob, wf, stopLog, recvd, pushed, atCancel,
                   recvLog, pushLog,
                   started, call, script>>

\* scanner.Scan() returns false: close(jobs), the goroutine ends
SourceClose ==
    /\ srcPc = "scan"
    /\ fed = nURLs
    /\ IF jobsClosed
       THEN /\ panicked' = TRUE
            /\ UNCHANGED <<jobsClosed, srcPc>>
       ELSE /\ jobsClosed' = TRUE
            /\ srcPc' = "done"
            /\ UNCHANGED panicked
    /\ UNCHANGED <<nURLs, fed, jobs, results, resultsClosed,
                   printed, mainPc, canceled, sigC, watcherPc, shutdownMsgs,
                   wpc, wjob, wf, stopLog, recvd, pushed, atCancel,
                   recvLog, pushLog,
                   started, call, script>>

\* a start loop that runs once more than workerCount
MainStartWorker_OneMore ==
    /\ mainPc = "start"
    /\ started <= workerCount
    /\ wpc' = IF started \in Workers THEN [wpc EXCEPT ![started] = "select"]
              ELSE wpc
    /\ started' = started + 1
    /\ UNCHANGED <<nURLs, fed, srcPc, jobs, jobsClosed, results, resultsClosed,
                   printed, mainPc, canceled, sigC, watcherPc, shutdownMsgs,
                   wjob, wf, stopLog, panicked, recvd, pushed, atCancel,
                   recvLog, pushLog, call, script>>

\* for i := 0; i < workerCount; i++ { go worker.Start(ctx, i, jobs, results) }
MainStartWorker ==
    /\ mainPc = "start"
    /\ started < workerCount
    /\ wpc' = [wpc EXCEPT ![started] = "select"]
    /\ started' = started + 1
    /\ UNCHANGED <<nURLs, fed, srcPc, jobs, jobsClosed, results, resultsClosed,
                   printed, mainPc, canceled, sigC, watcherPc, shutdownMsgs,
                   wjob, wf, stopLog, panicked, recvd, pushed, atCancel,
                   recvLog, pushLog, call, script>>

\* the loop is over: go func() { signal.Notify ... }(), go func() { feed }(),
\* and main reaches its loop over results
MainStartRest ==
    /\ mainPc = "start"
    /\ ~(started < workerCount)
    /\ watcherPc' = "wait"
    /\ srcPc' = "scan"
    /\ mainPc' = "range"
    /\ UNCHANGED <<nURLs, fed, jobs, jobsClosed, results, resultsClosed,
                   printed, canceled, sigC, shutdownMsgs, wpc,
                   wjob, wf, stopLog, panicked, recvd, pushed, atCancel,
                   recvLog, pushLog, started, call, script>>

\* for res := range results { fmt.Println(res) }
MainRange ==
    /\ mainPc = "range"
    /\ IF Len(results) > 0
       THEN /\ printed' = [printed EXCEPT ![Head(results).job] = @ + 1]
            /\ results' = Tail(results)
            /\ UNCHANGED mainPc
       ELSE /\ resultsClosed
            /\ mainPc' = "exited"
            /\ UNCHANGED <<printed, results>>
    /\ UNCHANGED <<nURLs, fed, srcPc, jobs, jobsClosed, resultsClosed,
                   canceled, sigC, watcherPc, shutdownMsgs,
                   wpc, wjob, wf, stopLog, panicked, recvd, pushed, atCancel,
                   recvLog, pushLog,
                   started, call, script>>

\* the runtime delivers os.Interrupt to c without blocking (dropped when full)
Interrupt ==
    /\ watcherPc # "unstarted"
    /\ sigC' = IF sigC < SigCap THEN sigC + 1 ELSE sigC
    /\ UNCHANGED <<nURLs, fed, srcPc, jobs, jobsClosed, results, resultsClosed,
                   printed, mainPc, canceled, watcherPc, shutdownMsgs,
                   wpc, wjob, wf, stopLog, panicked, recvd, pushed, atCancel,
                   recvLog, pushLog,
                   started, call, script>>

\* a watcher that loops over c and closes the done channel on every signal
Watcher_Loop ==
    /\ watcherPc = "wait"
    /\ sigC > 0
    /\ sigC' = sigC - 1
    /\ shutdownMsgs' = shutdownMsgs + 1
    /\ canceled' = TRUE
    /\ panicked' = canceled
    /\ atCancel' = IF canceled THEN atCancel
                   ELSE {wjob[w] : w \in {x \in Workers : wpc[x] = "fetch"}}
    /\ UNCHANGED <<nURLs, fed, srcPc, jobs, jobsClosed, results, resultsClosed,
                   printed, mainPc, watcherPc, wpc, wjob, wf, stopLog,
                   recvd, pushed, recvLog, pushLog,
                   started, call, script>>

\* <-c; fmt.Println("Shutting down..."); cancel(); the goroutine ends
Watcher ==
    /\ watcherPc = "wait"
    /\ sigC > 0
    /\ sigC' = sigC - 1
    /\ shutdownMsgs' = shutdownMsgs + 1
    /\ canceled' = TRUE
    /\ watcherPc' = "done"
    /\ atCancel' = IF canceled THEN atCancel
                   ELSE {wjob[w] : w \in {x \in Workers : wpc[x] = "fetch"}}
    /\ UNCHANGED <<nURLs, fed, srcPc, jobs, jobsClosed, results, resultsClosed,
                   printed, mainPc, wpc, wjob, wf, stopLog, panicked,
                   recvd, pushed, recvLog, pushLog,
                   started, call, script>>

\* ---- the program -------------------------------------------------------
Init ==
    /\ nURLs \in 0 .. MaxJobs
    /\ fed = 0
    /\ srcPc = "unstarted"
    /\ jobs = <<>>
    /\ jobsClosed = FALSE
    /\ results = <<>>
    /\ resultsClosed = FALSE
    /\ printed = [j \in JobIds |-> 0]
    /\ mainPc = "start"
    /\ started = 0
    /\ canceled = FALSE
    /\ sigC = 0
    /\ watcherPc = "unstarted"
    /\ shutdownMsgs = 0
    /\ wpc = [w \in Workers |-> "unstarted"]
    /\ wjob = [w \in Workers |-> 0]
    /\ wf = [w \in Workers |-> IdleCall]
    /\ stopLog = [w \in Workers |-> 0]
    /\ panicked = FALSE
    /\ recvd = [j \in JobIds |-> 0]
    /\ pushed = [j \in JobIds |-> 0]
    /\ atCancel = {}
    /\ recvLog = [w \in Workers |-> <<>>]
    /\ pushLog = [w \in Workers |-> <<>>]
    /\ call = IdleCall
    /\ script = <<>>

Next ==
    \/ \E w \in Workers : WorkerCancel(w)
    \/ \E w \in Workers : WorkerRecv(w)
    \/ \E w \in Workers : WorkerClosed(w)
    \/ \E w \in Workers : WorkerGet(w)
    \/ \E w \in Workers : WorkerSleep(w)
    \/ \E w \in Workers : WorkerSend(w)
    \/ SourceSend
    \/ SourceClose
    \/ MainStartWorker
    \/ MainStartRest
    \/ MainRange
    \/ Interrupt
    \/ Watcher

Spec == Init /\ [][Next]_vars

\* every goroutine that can run does run; every http.Get and time.Sleep
\* returns; the operator may or may not interrupt
FairSpec ==
    /\ Spec
    /\ \A w \in Workers :
          /\ WF_vars(WorkerCancel(w) \/ WorkerRecv(w) \/ WorkerClosed(w))
          /\ WF_vars(WorkerGet(w))
          /\ WF_vars(WorkerSleep(w))
          /\ WF_vars(WorkerSend(w))
    /\ WF_vars(SourceSend)
    /\ WF_vars(SourceClose)
    /\ WF_vars(MainStartWorker)
    /\ WF_vars(MainStartRest)
    /\ WF_vars(MainRange)
    /\ WF_vars(Watcher)

\* ---- one call of FetchWithRetry against a script -----------------------
InitFetch ==
    /\ nURLs = 0
    /\ fed = 0
    /\ srcPc = "unstarted"
    /\ jobs = <<>>
    /\ jobsClosed = FALSE
    /\ results = <<>>
    /\ resultsClosed = FALSE
    /\ printed = [j \in JobIds |-> 0]
    /\ mainPc = "start"
    /\ started = 0
    /\ canceled = FALSE
    /\ sigC = 0
    /\ watcherPc = "unstarted"
    /\ shutdownMsgs = 0
    /\ wpc = [w \in Workers |-> "unstarted"]
    /\ wjob = [w \in Workers |-> 0]
    /\ wf = [w \in Workers |-> IdleCall]
    /\ stopLog = [w \in Workers |-> 0]
    /\ panicked = FALSE
    /\ recvd = [j \in JobIds |-> 0]
    /\ pushed = [j \in JobIds |-> 0]
    /\ atCancel = {}
    /\ recvLog = [w \in Workers |-> <<>>]
    /\ pushLog = [w \in Workers |-> <<>>]
    /\ script \in [1 .. MaxAttempts + 1 -> Outcomes]
    /\ \E n \in 0 .. MaxAttempts : call = FetchWithRetry(n)

FetchGet ==
    /\ call.pc = "get"
    /\ call' = HttpGet(call, script[call.gets + 1])
    /\ UNCHANGED <<poolVars, script>>

FetchSleep ==
    /\ call.pc = "sleep"
    /\ call' = SleepStep(call)
    /\ UNCHANGED <<poolVars, script>>

NextFetch == FetchGet \/ FetchSleep

SpecFetch == InitFetch /\ [][NextFetch]_vars

\* ---- properties --------------------------------------------------------
Returned(w) == wpc[w] \in {"stopped", "closed"}
AllReturned == \A w \in Workers : Returned(w)
InFlight(j) == \E w \in Workers : wpc[w] = "fetch" /\ wjob[w] = j

RECURSIVE SumTo(_, _)
SumTo(f, n) == IF n = 0 THEN 0 ELSE f[n] + SumTo(f, n - 1)
TotalPushed == SumTo(pushed, MaxJobs)

\* C1: while the Cancellation Signal has not been raised, no Job is received
\* twice, and once every worker has returned each Job the source enqueued
\* has been received exactly once and the number of Results pushed equals
\* the number of Jobs enqueued.
C1_ExactlyOneDelivery ==
    (~canceled) =>
        /\ \A j \in JobIds : recvd[j] <= 1
        /\ AllReturned =>
              /\ \A j \in 1 .. fed : recvd[j] = 1
              /\ TotalPushed = fed

C1_Witness ==
    /\ ~canceled
    /\ AllReturned
    /\ fed = 2
    /\ TotalPushed = 2

\* C2: with no cancellation, once the dispatch queue is closed and all
\* workers have returned, main eventually leaves its loop over results.
C2_MainExits ==
    ((~canceled) /\ jobsClosed /\ AllReturned) ~> (canceled \/ mainPc = "exited")

\* C3: no step taken while the Cancellation Signal is raised hands a Job to
\* a worker.
C3_NoJobAfterCancel == [][canceled => recvd' = recvd]_vars

\* C4: a Job is never answered twice, and every Job a worker has received
\* is either still being fetched by that worker or has exactly one Result,
\* whether or not the Cancellation Signal was raised meanwhile.
C4_OneResultPerJob ==
    \A j \in JobIds :
        /\ pushed[j] <= 1
        /\ pushed[j] <= recvd[j]
        /\ recvd[j] >= 1 => (pushed[j] = 1 \/ InFlight(j))

C4_Witness ==
    /\ canceled
    /\ \E j \in atCancel : pushed[j] = 1 /\ ~InFlight(j)

\* the k-th scripted answer is a transport success with status 200
Is200(k) == (~script[k].err) /\ script[k].status = 200
Done == call.pc = "ret"

\* C5: a call with n >= 1 makes at most n GETs, and reports exhausted
\* retries only after exactly n GETs, all of which failed.
C5_RetryBound ==
    call.retries >= 1 =>
        /\ call.gets <= call.retries
        /\ call.res = "exhausted" =>
              /\ call.gets = call.retries
              /\ \A k \in 1 .. call.retries : ~Is200(k)

C5_Witness ==
    /\ Done
    /\ call.res = "exhausted"
    /\ call.retries = 2
    /\ call.gets = 2
    /\ script[1].err

\* C6: when the first 200 answer is the k-th, k <= n, the call makes no
\* GET beyond the k-th, and if that body is readable it returns success
\* with the body of the k-th answer after exactly k GETs.
C6_SuccessStops ==
    \A k \in 1 .. call.retries :
        (Is200(k) /\ \A m \in 1 .. k - 1 : ~Is200(m)) =>
            /\ call.gets <= k
            /\ (Done /\ script[k].readable) =>
                  /\ call.res = "ok"
                  /\ call.gets = k
                  /\ call.from = k

C6_Witness ==
    /\ Done
    /\ call.retries = 3
    /\ ~Is200(1)
    /\ Is200(2)
    /\ script[2].readable
    /\ call.res = "ok"
    /\ call.gets = 2

\* the k-th scripted answer is a failure: transport error or non-200 status
Fails(k) == ~Is200(k)
FailureAnswers == {o \in Outcomes : o.err \/ o.status # 200}

\* C7: a non-200 answer never ends the loop early: a call answered 500 on
\* every attempt fails after exactly n GETs, and replacing any failed answer
\* of the script by any other failure (transport error or non-200 status)
\* changes neither the number of GETs nor the result of the call.
C7_Non200Retried ==
    Done =>
        /\ (call.retries >= 1 /\ \A k \in 1 .. call.retries :
                                     (~script[k].err) /\ script[k].status = 500) =>
              (call.res = "exhausted" /\ call.gets = call.retries)
        /\ \A k \in DOMAIN script : \A o \in FailureAnswers :
              Fails(k) =>
                  LET r == RunFetch(FetchWithRetry(call.retries),
                                    [script EXCEPT ![k] = o])
                  IN  r.gets = call.gets /\ r.res = call.res

C7_Witness ==
    /\ Done
    /\ call.retries = 3
    /\ \A k \in 1 .. 3 : (~script[k].err) /\ script[k].status = 500
    /\ call.res = "exhausted"
    /\ call.gets = 3

\* C8: at the start of attempt i (0-indexed) the call has slept 1+2+...+i
\* time units in all, nothing before the first attempt and i units just
\* before attempt i; after three failures out of three it has slept at
\* least 3 units.
C8_LinearBackoff ==
    /\ call.pc = "get" =>
          /\ call.gets = call.i
          /\ call.waited = (call.i * (call.i + 1)) \div 2
          /\ call.lastWait = call.i
    /\ (call.retries = 3 /\ call.res = "exhausted") => call.waited >= 3

C8_Witness ==
    /\ call.pc = "get"
    /\ call.retries = 3
    /\ call.i = 2
    /\ call.waited = 3

\* C9: once raised the Cancellation Signal stays raised; after that the
\* watcher takes no further step (no second raise, no second notice), an
\* interrupt changes nothing but the signal pending in c, and no goroutine
\* panics.
C9_OneWayIdempotent ==
    [][ /\ canceled => canceled'
        /\ canceled => (watcherPc' = watcherPc /\ shutdownMsgs' = shutdownMsgs
                        /\ atCancel' = atCancel)
        /\ (canceled /\ sigC' # sigC) =>
              UNCHANGED <<nURLs, fed, srcPc, jobs, jobsClosed, results,
                          resultsClosed, printed, mainPc, canceled, watcherPc,
                          shutdownMsgs, wpc, wjob, wf, stopLog, panicked,
                          recvd, pushed, atCancel, recvLog, pushLog,
                          started>>
        /\ ~panicked' ]_vars

C9_Witness ==
    /\ canceled
    /\ watcherPc = "done"
    /\ sigC = 1

\* C10: after the Cancellation Signal is raised every worker eventually
\* returns, and the only fetches running after it are those that were in
\* flight when it was raised.
C10_OneCycleThenStop ==
    /\ [](canceled => \A w \in Workers : wpc[w] = "fetch" => wjob[w] \in atCancel)
    /\ (canceled ~> AllReturned)

\* C11: a worker that returned through the cancellation branch has printed
\* the stop notice exactly once, any other worker (running, or returned on
\* the closed queue) never; the step in which a worker returns sends
\* nothing on results.
C11_StopNotice ==
    /\ [](\A w \in Workers :
             stopLog[w] = IF wpc[w] = "stopped" THEN 1 ELSE 0)
    /\ [][\A w \in Workers :
             ((~Returned(w)) /\ Returned(w)') =>
                 (results' = results /\ pushed' = pushed)]_vars

C11_Witness ==
    \E v, w \in Workers :
        /\ wpc[v] = "stopped" /\ stopLog[v] = 1
        /\ wpc[w] = "closed" /\ stopLog[w] = 0

\* C12: when the first 200 answer is the k-th, k <= n, and its body cannot
\* be read, the call returns the body-read error right after the k-th GET:
\* no later GET, and no sleep beyond those that followed the k-1 failures.
C12_ReadFailureTerminal ==
    \A k \in 1 .. call.retries :
        (Is200(k) /\ (~script[k].readable) /\ \A m \in 1 .. k - 1 : ~Is200(m)) =>
            /\ call.gets <= k
            /\ call.gets = k =>
                  /\ Done
                  /\ call.res = "readerr"
                  /\ call.waited = ((k - 1) * k) \div 2

C12_Witness ==
    /\ Done
    /\ call.res = "readerr"
    /\ call.retries = 3
    /\ call.gets = 2
    /\ call.waited = 1

\* the fetch of worker w has failed and its Result is not sent yet
FailedFetch(w) ==
    wpc[w] = "fetch" /\ wf[w].pc = "ret" /\ wf[w].res \in {"readerr", "exhausted"}

\* C13: the step in which a fetch fails, and the step in which the worker
\* reports it, change no other worker, neither the open/closed status of
\* the dispatch queue nor the Cancellation Signal, and panic nowhere; the
\* report is one Error Result for the Job and the worker is back at its
\* select afterwards.
C13_ErrorsContained ==
    [][\A w \in Workers :
          /\ ((~FailedFetch(w)) /\ FailedFetch(w)') =>
                /\ \A v \in Workers \ {w} :
                      wpc'[v] = wpc[v] /\ wf'[v] = wf[v] /\ wjob'[v] = wjob[v]
                /\ jobsClosed' = jobsClosed
                /\ canceled' = canceled
                /\ ~panicked'
          /\ (FailedFetch(w) /\ ~FailedFetch(w)') =>
                /\ results' = Append(results,
                                     [worker |-> w, job |-> wjob[w],
                                      kind |-> "Error", detail |-> wf[w].res])
                /\ wpc'[w] = "select"
                /\ \A v \in Workers \ {w} :
                      wpc'[v] = wpc[v] /\ wf'[v] = wf[v] /\ wjob'[v] = wjob[v]
                /\ jobsClosed' = jobsClosed
                /\ canceled' = canceled
                /\ ~panicked']_vars

C13_Witness ==
    \E w \in Workers :
        /\ Len(results) > 0
        /\ results[1].worker = w
        /\ results[1].kind = "Error"
        /\ wpc[w] = "fetch"
        /\ ~canceled

AllClosed == \A w \in Workers : wpc[w] = "closed"

\* C14: a worker returns through the closed-queue branch only when the
\* dispatch queue is closed and holds no Job; and once the queue is closed
\* and empty with no cancellation, every worker eventually returns through
\* that branch (unless the Cancellation Signal is raised meanwhile).
C14_ClosedQueueTermination ==
    /\ [][\A w \in Workers :
             (wpc[w] # "closed" /\ wpc'[w] = "closed") =>
                 (jobsClosed /\ Len(jobs) = 0)]_vars
    /\ (((~canceled) /\ jobsClosed /\ Len(jobs) = 0) ~> (canceled \/ AllClosed))

C14_Witness ==
    /\ ~canceled
    /\ jobsClosed
    /\ AllClosed
    /\ nURLs = 2
    /\ \A j \in 1 .. 2 : printed[j] = 1

\* C15: the job source eventually has sent every line of the input and
\* closed the dispatch queue; it closes the queue once (no panic on a
\* second close), only after the last line, and sends nothing afterwards.
C15_SourceCompletes ==
    /\ <>(srcPc = "done" /\ jobsClosed /\ fed = nURLs)
    /\ [](jobsClosed => fed = nURLs)
    /\ [][jobsClosed => (jobsClosed' /\ fed' = fed)]_vars
    /\ []~panicked

IsPrefix(p, q) == Len(p) <= Len(q) /\ \A i \in 1 .. Len(p) : p[i] = q[i]

\* C16: for every worker, the Jobs whose Results it has sent are, in the
\* order sent, an initial part of the Jobs it received in the order
\* received, and at most the last received Job is still unanswered.
C16_PerWorkerOrder ==
    \A w \in Workers :
        /\ IsPrefix(pushLog[w], recvLog[w])
        /\ Len(recvLog[w]) - Len(pushLog[w]) <= 1

C16_Witness ==
    \E w \in Workers :
        /\ Len(pushLog[w]) = 2
        /\ pushLog[w] = recvLog[w]

TotalRecvd == SumTo(recvd, MaxJobs)

\* C17: main starts workerCount workers, no more and no fewer, before it
\* does anything else; a worker has one unanswered Job while it fetches and
\* none otherwise; so the Jobs received and not yet answered never
\* outnumber the workers.
C17_BoundedParallelism ==
    /\ started <= workerCount
    /\ Cardinality({w \in Workers : wpc[w] # "unstarted"}) = started
    /\ mainPc # "start" => started = workerCount
    /\ \A w \in Workers :
          Len(recvLog[w]) - Len(pushLog[w]) = IF wpc[w] = "fetch" THEN 1 ELSE 0
    /\ TotalRecvd - TotalPushed <= workerCount

C17_Witness ==
    /\ started = workerCount
    /\ TotalRecvd - TotalPushed = 2
    /\ Cardinality({w \in Workers : wpc[w] = "fetch"}) = 2

\* worker w has a Result to send
Pending(w) == wpc[w] = "fetch" /\ wf[w].pc = "ret"
\* number of Results for job j buffered in results
Buffered(j) == Cardinality({i \in 1 .. Len(results) : results[i].job = j})

\* C18: neither queue ever holds more than its capacity; a worker with a
\* Result to send can send exactly when results is not full; while results
\* is full the worker keeps its Job and its Result; and every Result sent
\* is either still buffered or has been printed.
C18_Backpressure ==
    /\ [](/\ Len(jobs) <= JobsCap
          /\ Len(results) <= ResultsCap
          /\ \A w \in Workers :
                Pending(w) => (ENABLED WorkerSend(w) <=> Len(results) < ResultsCap)
          /\ \A j \in JobIds : pushed[j] = printed[j] + Buffered(j))
    /\ [][\A w \in Workers :
             (Pending(w) /\ Len(results) = ResultsCap) =>
                 (Pending(w)' /\ wjob'[w] = wjob[w] /\ wf'[w] = wf[w])]_vars

C18_Witness ==
    /\ Len(results) = ResultsCap
    /\ \E w \in Workers : Pending(w) /\ ~ENABLED WorkerSend(w)

\* C19: the results queue is open in every reachable state, and no
\* goroutine has panicked on a send to (or a close of) a closed channel.
C19_ResultsNeverClosed == (~resultsClosed) /\ (~panicked)

C19_Witness ==
    /\ ~resultsClosed
    /\ \E w, v \in Workers :
          /\ wpc[w] = "closed"
          /\ Len(pushLog[v]) = 1
          /\ Len(recvLog[v]) = 1
          /\ Len(results) = 1
          /\ results[1].worker = v

\* GETs of the finished call that failed
FailedGets == IF call.res = "exhausted" THEN call.gets ELSE call.gets - 1

\* C20: a finished call has slept once after each failed GET, i+1 units
\* after the i-th (0-indexed), and not after a GET answered 200: a call
\* whose n GETs all failed has slept 1+2+...+n units, 6 for n = 3.
C20_WaitAfterLastFailure ==
    Done =>
        /\ call.waited = (FailedGets * (FailedGets + 1)) \div 2
        /\ call.res = "exhausted" =>
              /\ call.waited = (call.retries * (call.retries + 1)) \div 2
              /\ call.lastWait = call.retries
        /\ (call.res = "exhausted" /\ call.retries = 3) => call.waited = 6

C20_Witness ==
    /\ Done
    /\ call.res = "exhausted"
    /\ call.retries = 3
    /\ call.gets = 3
    /\ call.waited = 6

====
